---- MODULE Spec2Model ----
(***************************************************************************)
(* read_counter: src/main.rs.  One sequential program: parse the command   *)
(* line, open a BAM/CRAM container, optionally bind a reference, stream    *)
(* the records (optionally capped), tally the string-typed CB tag values   *)
(* in a hash map, sort the tally by identifier and write it to the file    *)
(* 'reads_per_barcode'.                                                    *)
(*                                                                         *)
(* Strings are sequences: command-line tokens are sequences of one-char    *)
(* strings, identifiers and file contents are sequences of byte values.    *)
(***************************************************************************)
EXTENDS Integers, Sequences, FiniteSets, TLC

VARIABLES
    argv,               \* env::args() without the program name
    container,          \* the items the opened container decodes to, in disk order
    artifact,           \* the file 'reads_per_barcode' on disk
    pc,                 \* position of main
    arg_i,              \* arg_iter: number of tokens already taken
    input_path_str,     \* Option<String>
    ref_fasta_path_str, \* Option<String>
    max_records,        \* Option<usize>
    reader,             \* bam_reader: opened?, reference bound?, records pulled
    take_n,             \* Take::n of limited_iterator (None: no Take adapter)
    barcode_counts,     \* AHashMap<String, usize>
    sorted_barcodes,    \* Vec<(String, usize)>
    writer,             \* BufWriter: bytes written so far, index of the write loop
    total_barcoded_reads,
    log,                \* kinds of message printed to stdout / stderr
    exit_code,          \* process exit status (None while running)
    rerun,              \* is this the second invocation on the same files?
    prev                \* what the first invocation left behind

vars == <<argv, container, artifact, pc, arg_i, input_path_str, ref_fasta_path_str,
          max_records, reader, take_n, barcode_counts, sorted_barcodes, writer,
          total_barcoded_reads, log, exit_code, rerun, prev>>

\* ---------------------------------------------------------------- bounds
MaxRecords == 3

\* ------------------------------------------------------- options, strings
None == [some |-> FALSE]
Some(v) == [some |-> TRUE, val |-> v]

Min(a, b) == IF a <= b THEN a ELSE b

EndsWith(s, suffix) ==
    /\ Len(s) >= Len(suffix)
    /\ SubSeq(s, Len(s) - Len(suffix) + 1, Len(s)) = suffix

StartsWithDash(s) == Len(s) > 0 /\ s[1] = "-"

\* command-line tokens
T_n      == <<"-", "n">>
T_limit  == <<"-", "-", "l", "i", "m", "i", "t">>
T_x      == <<"-", "x">>
T_bam    == <<"a", ".", "b", "a", "m">>
T_cram   == <<"a", ".", "c", "r", "a", "m">>
T_crai   == <<"a", ".", "c", "r", "a", "i">>
T_ref    == <<"r", ".", "f", "a">>
T_0      == <<"0">>
T_1      == <<"1">>
T_2      == <<"2">>
T_plus3  == <<"+", "3">>
T_12     == <<"1", "2">>
T_abc    == <<"a", "b", "c">>
T_neg1   == <<"-", "1">>
T_empty  == <<>>

DigitChars == <<"0", "1", "2", "3", "4", "5", "6", "7", "8", "9">>
IsDigit(c) == \E d \in 1..Len(DigitChars) : DigitChars[d] = c
DigitVal(c) == (CHOOSE d \in 1..Len(DigitChars) : DigitChars[d] = c) - 1

RECURSIVE DigitsValue(_)
DigitsValue(s) ==
    IF Len(s) = 0 THEN 0
    ELSE DigitsValue(SubSeq(s, 1, Len(s) - 1)) * Len(DigitChars) + DigitVal(s[Len(s)])

\* str::parse::<usize>: an optional '+', then one or more decimal digits; anything
\* else (empty, a '-', a letter) is Err.  Tokens here are too short to overflow.
ParseUsize(s) ==
    LET digits == IF Len(s) > 0 /\ s[1] = "+" THEN Tail(s) ELSE s
    IN  IF Len(digits) > 0 /\ \A k \in 1..Len(digits) : IsDigit(digits[k])
        THEN Some(DigitsValue(digits))
        ELSE None


\* ------------------------------------------------------------ the inputs
\* command lines (args without args[0])
ArgvSet ==
    { <<>>,
      <<T_bam>>, <<T_cram>>, <<T_crai>>,
      <<T_bam, T_ref>>, <<T_cram, T_ref>>,
      <<T_bam, T_n, T_0>>, <<T_bam, T_n, T_1>>, <<T_limit, T_2, T_bam>>,
      <<T_bam, T_n, T_plus3>>, <<T_cram, T_ref, T_limit, T_12>>,
      <<T_bam, T_n>>, <<T_bam, T_limit, T_abc>>, <<T_bam, T_n, T_neg1>>,
      <<T_bam, T_n, T_empty>>,
      <<T_x, T_bam>>, <<T_bam, T_ref, T_cram>>, <<T_n, T_2>> }

\* command lines of the two-invocation specification
RerunArgvSet ==
    { <<T_bam>>, <<T_bam, T_n, T_1>>, <<T_limit, T_2, T_bam>>,
      <<T_bam, T_n, T_plus3>>, <<T_cram, T_ref, T_limit, T_12>> }

\* identifiers (CB values) as byte strings: "A", "AB", "a"
Ids == { <<65>>, <<65, 66>>, <<97>> }

\* One item of bam_reader.records(): Err(e), or Ok(record) with what
\* record.aux(b"CB") gives for it: a string, an integer, or tag-not-found.
DecodeError == [decoded |-> FALSE, cb_type |-> "NotFound", cb_val |-> <<>>]
Record(type, val) == [decoded |-> TRUE, cb_type |-> type, cb_val |-> val]
Items ==
    {DecodeError, Record("NotFound", <<>>), Record("I32", <<65>>)}
        \cup { Record("String", id) : id \in Ids }

Containers == UNION { [1..n -> Items] : n \in 0..MaxRecords }

\* the file 'reads_per_barcode'
Absent == [exists |-> FALSE, bytes |-> <<>>]
File(bytes) == [exists |-> TRUE, bytes |-> bytes]

EmptyMap == [id \in {} |-> 0]
NoPrev == [ran |-> FALSE, max_records |-> None, exit_code |-> None, pulled |-> 0,
           sorted_barcodes |-> <<>>, artifact |-> Absent]

\* the locals of main before it runs
Fresh ==
    /\ pc = "start"
    /\ arg_i = 0
    /\ input_path_str = None
    /\ ref_fasta_path_str = None
    /\ max_records = None
    /\ reader = [opened |-> FALSE, reference |-> FALSE, pos |-> 0]
    /\ take_n = None
    /\ barcode_counts = EmptyMap
    /\ sorted_barcodes = <<>>
    /\ writer = [created |-> FALSE, buf |-> <<>>, i |-> 0]
    /\ total_barcoded_reads = 0
    /\ log = {}
    /\ exit_code = None

Init ==
    /\ argv \in ArgvSet
    /\ container \in Containers
    /\ artifact = Absent
    /\ Fresh
    /\ rerun = FALSE
    /\ prev = NoPrev

InitRerun ==
    /\ argv \in RerunArgvSet
    /\ container \in Containers
    /\ artifact = Absent
    /\ Fresh
    /\ rerun = FALSE
    /\ prev = NoPrev

\* process::exit(code), or main returning Err (exit status 1) / Ok (0)
Exit(code, msg) ==
    /\ pc' = "exit"
    /\ exit_code' = Some(code)
    /\ log' = log \cup {msg}

\* -------------------------------------------------------- argument parsing
\* lines 14-18
Start ==
    /\ pc = "start"
    /\ IF Len(argv) + 1 < 2
       THEN Exit(1, "usage")
       ELSE pc' = "parse" /\ UNCHANGED <<exit_code, log>>
    /\ UNCHANGED <<argv, container, artifact, arg_i, input_path_str, ref_fasta_path_str,
                   max_records, reader, take_n, barcode_counts, sorted_barcodes, writer,
                   total_barcoded_reads, rerun, prev>>

\* lines 26-59: one iteration of `while let Some(arg) = arg_iter.next()`
ParseArg ==
    /\ pc = "parse"
    /\ arg_i < Len(argv)
    /\ LET arg == argv[arg_i + 1] IN
       IF arg = T_n \/ arg = T_limit THEN
           IF arg_i + 1 < Len(argv) THEN
               LET parsed == ParseUsize(argv[arg_i + 2]) IN
               IF parsed.some
               THEN /\ max_records' = Some(parsed.val)
                    /\ arg_i' = arg_i + 2
                    /\ UNCHANGED <<pc, exit_code, log, input_path_str, ref_fasta_path_str>>
               ELSE /\ Exit(1, "limit_not_valid")
                    /\ arg_i' = arg_i + 2
                    /\ UNCHANGED <<max_records, input_path_str, ref_fasta_path_str>>
           ELSE /\ Exit(1, "limit_requires_number")
                /\ arg_i' = arg_i + 1
                /\ UNCHANGED <<max_records, input_path_str, ref_fasta_path_str>>
       ELSE IF StartsWithDash(arg) THEN
           /\ Exit(1, "unknown_flag")
           /\ arg_i' = arg_i + 1
           /\ UNCHANGED <<max_records, input_path_str, ref_fasta_path_str>>
       ELSE IF ~input_path_str.some THEN
           /\ input_path_str' = Some(arg)
           /\ arg_i' = arg_i + 1
           /\ UNCHANGED <<pc, exit_code, log, max_records, ref_fasta_path_str>>
       ELSE IF ~ref_fasta_path_str.some THEN
           /\ ref_fasta_path_str' = Some(arg)
           /\ arg_i' = arg_i + 1
           /\ UNCHANGED <<pc, exit_code, log, max_records, input_path_str>>
       ELSE
           /\ Exit(1, "too_many_positional")
           /\ arg_i' = arg_i + 1
           /\ UNCHANGED <<max_records, input_path_str, ref_fasta_path_str>>
    /\ UNCHANGED <<argv, container, artifact, reader, take_n, barcode_counts,
                   sorted_barcodes, writer, total_barcoded_reads, rerun, prev>>

\* lines 61-65: input_path_str.ok_or_else(..)?
RequireInput ==
    /\ pc = "parse"
    /\ arg_i = Len(argv)
    /\ IF input_path_str.some
       THEN pc' = "open" /\ UNCHANGED <<exit_code, log>>
       ELSE Exit(1, "missing_input")
    /\ UNCHANGED <<argv, container, artifact, arg_i, input_path_str, ref_fasta_path_str,
                   max_records, reader, take_n, barcode_counts, sorted_barcodes, writer,
                   total_barcoded_reads, rerun, prev>>

\* ------------------------------------------------------------ reader setup
\* OpenReader that reports a failed open and goes on
OpenReaderLenient ==
    /\ pc = "open"
    /\ \E ok \in BOOLEAN :
          /\ reader' = [reader EXCEPT !.opened = TRUE]
          /\ pc' = "reference"
          /\ log' = IF ok THEN log ELSE log \cup {"open_error"}
          /\ UNCHANGED exit_code
    /\ UNCHANGED <<argv, container, artifact, arg_i, input_path_str, ref_fasta_path_str,
                   max_records, take_n, barcode_counts, sorted_barcodes, writer,
                   total_barcoded_reads, rerun, prev>>

\* lines 68-70: bam::Reader::from_path(..)?  The file system decides the outcome.
OpenReader ==
    /\ pc = "open"
    /\ \E ok \in BOOLEAN :
          IF ok
          THEN /\ reader' = [reader EXCEPT !.opened = TRUE]
               /\ pc' = "reference"
               /\ UNCHANGED <<exit_code, log>>
          ELSE /\ Exit(1, "open_error")
               /\ UNCHANGED reader
    /\ UNCHANGED <<argv, container, artifact, arg_i, input_path_str, ref_fasta_path_str,
                   max_records, take_n, barcode_counts, sorted_barcodes, writer,
                   total_barcoded_reads, rerun, prev>>

\* file_is_cram with a suffix test that also matches ".bam"
file_is_cram_loose ==
    \/ EndsWith(input_path_str.val, <<"a", "m">>)
    \/ EndsWith(input_path_str.val, <<".", "c", "r", "a", "i">>)

\* line 72
file_is_cram ==
    \/ EndsWith(input_path_str.val, <<".", "c", "r", "a", "m">>)
    \/ EndsWith(input_path_str.val, <<".", "c", "r", "a", "i">>)

\* lines 72-97: set_reference for a CRAM input, notices otherwise
SetReference ==
    /\ pc = "reference"
    /\ IF file_is_cram THEN
           IF ref_fasta_path_str.some THEN
               \E ok \in BOOLEAN :
                  IF ok
                  THEN /\ reader' = [reader EXCEPT !.reference = TRUE]
                       /\ pc' = "iterator"
                       /\ UNCHANGED <<exit_code, log>>
                  ELSE /\ Exit(1, "reference_error")
                       /\ UNCHANGED reader
           ELSE /\ log' = log \cup {"info_no_reference"}
                /\ pc' = "iterator"
                /\ UNCHANGED <<exit_code, reader>>
       ELSE IF ref_fasta_path_str.some THEN
           /\ log' = log \cup {"warning_reference_ignored"}
           /\ pc' = "iterator"
           /\ UNCHANGED <<exit_code, reader>>
       ELSE
           /\ pc' = "iterator"
           /\ UNCHANGED <<exit_code, log, reader>>
    /\ UNCHANGED <<argv, container, artifact, arg_i, input_path_str, ref_fasta_path_str,
                   max_records, take_n, barcode_counts, sorted_barcodes, writer,
                   total_barcoded_reads, rerun, prev>>

\* lines 99-125: the announcements, the empty map, records() and the optional take(limit)
MakeIterator ==
    /\ pc = "iterator"
    /\ log' = log \cup {IF max_records.some THEN "processing_up_to" ELSE "processing_all"}
    /\ barcode_counts' = EmptyMap
    /\ take_n' = max_records
    /\ pc' = "loop"
    /\ UNCHANGED <<argv, container, artifact, arg_i, input_path_str, ref_fasta_path_str,
                   max_records, reader, sorted_barcodes, writer, total_barcoded_reads,
                   exit_code, rerun, prev>>


\* ------------------------------------------------------ extract and tally
\* TagExtract with every present value taken as the identifier, whatever its type
TagExtractAnyType(record) ==
    IF record.cb_type # "NotFound" THEN Some(record.cb_val) ELSE None

\* lines 129-135: the match on record.aux(b"CB"); only Ok(Aux::String(_)) gives
\* an identifier, tag-not-found and every other value type give nothing
TagExtract(record) ==
    IF record.cb_type = "String" THEN Some(record.cb_val) ELSE None

\* Observe with the entry created at 1 and then incremented
ObserveInsertOne(map, id) ==
    LET inserted == IF id \in DOMAIN map THEN map ELSE map @@ (id :> 1)
    IN  [inserted EXCEPT ![id] = @ + 1]

\* Observe with the key folded to lower case
ObserveCaseFold(map, id) ==
    LET key == [k \in DOMAIN id |-> IF id[k] >= 65 /\ id[k] <= 90 THEN id[k] + 32 ELSE id[k]]
        inserted == IF key \in DOMAIN map THEN map ELSE map @@ (key :> 0)
    IN  [inserted EXCEPT ![key] = @ + 1]

\* line 131: *barcode_counts.entry(bc).or_insert(0) += 1
Observe(map, id) ==
    LET inserted == IF id \in DOMAIN map THEN map ELSE map @@ (id :> 0)
    IN  [inserted EXCEPT ![id] = @ + 1]

\* TakeAllows that stops one item late
TakeAllowsOneMore == IF take_n.some THEN take_n.val >= 0 ELSE TRUE

\* Take::next (line 122): is the adapter, if any, still willing to pull?
TakeAllows == IF take_n.some THEN take_n.val > 0 ELSE TRUE

\* Take::next decrements n before it asks the inner iterator
TakeStep == IF take_n.some THEN Some(take_n.val - 1) ELSE None

\* ReadRecord that leaves the loop at the first decode error
ReadRecordBreakOnError ==
    /\ pc = "loop"
    /\ TakeAllows
    /\ reader.pos < Len(container)
    /\ LET record_result == container[reader.pos + 1]
           extracted == TagExtract(record_result)
       IN  /\ take_n' = TakeStep
           /\ reader' = [reader EXCEPT !.pos = @ + 1]
           /\ IF record_result.decoded
              THEN /\ barcode_counts' =
                        IF extracted.some
                        THEN Observe(barcode_counts, extracted.val)
                        ELSE barcode_counts
                   /\ UNCHANGED <<log, pc>>
              ELSE /\ log' = log \cup {"record_error_skipping"}
                   /\ pc' = "collect"
                   /\ UNCHANGED barcode_counts
    /\ UNCHANGED <<argv, container, artifact, arg_i, input_path_str, ref_fasta_path_str,
                   max_records, sorted_barcodes, writer, total_barcoded_reads, exit_code,
                   rerun, prev>>

\* lines 127-137: one iteration of the for loop: the iterator yields an item
ReadRecord ==
    /\ pc = "loop"
    /\ TakeAllows
    /\ reader.pos < Len(container)
    /\ LET record_result == container[reader.pos + 1]
           extracted == TagExtract(record_result)
       IN  /\ take_n' = TakeStep
           /\ reader' = [reader EXCEPT !.pos = @ + 1]
           /\ IF record_result.decoded
              THEN /\ barcode_counts' =
                        IF extracted.some
                        THEN Observe(barcode_counts, extracted.val)
                        ELSE barcode_counts
                   /\ UNCHANGED log
              ELSE /\ log' = log \cup {"record_error_skipping"}
                   /\ UNCHANGED barcode_counts
    /\ UNCHANGED <<argv, container, artifact, pc, arg_i, input_path_str, ref_fasta_path_str,
                   max_records, sorted_barcodes, writer, total_barcoded_reads, exit_code,
                   rerun, prev>>

\* line 127: the iterator returns None (cap used up, or end of the container)
EndOfRecords ==
    /\ pc = "loop"
    /\ ~TakeAllows \/ reader.pos >= Len(container)
    /\ take_n' = IF TakeAllows THEN TakeStep ELSE take_n
    /\ pc' = "collect"
    /\ UNCHANGED <<argv, container, artifact, arg_i, input_path_str, ref_fasta_path_str,
                   max_records, reader, barcode_counts, sorted_barcodes, writer,
                   total_barcoded_reads, log, exit_code, rerun, prev>>

\* ------------------------------------------------------------ ordered tally
\* the sequences that list every element of S exactly once
Orders(S) ==
    { o \in [1..Cardinality(S) -> S] : \A i, j \in DOMAIN o : o[i] = o[j] => i = j }

\* line 141: barcode_counts.into_iter().collect(): the map is consumed and hands
\* its entries over in an order of its own choosing
Collect ==
    /\ pc = "collect"
    /\ \E order \in Orders(DOMAIN barcode_counts) :
          sorted_barcodes' = [i \in DOMAIN order |-> <<order[i], barcode_counts[order[i]]>>]
    /\ barcode_counts' = EmptyMap
    /\ pc' = "sort"
    /\ UNCHANGED <<argv, container, artifact, arg_i, input_path_str, ref_fasta_path_str,
                   max_records, reader, take_n, writer, total_barcoded_reads, log,
                   exit_code, rerun, prev>>

\* String::cmp: byte-wise lexicographic order, a proper prefix is smaller
RECURSIVE CmpBytes(_, _)
CmpBytes(a, b) ==
    IF a = <<>> /\ b = <<>> THEN "Equal"
    ELSE IF a = <<>> THEN "Less"
    ELSE IF b = <<>> THEN "Greater"
    ELSE IF Head(a) < Head(b) THEN "Less"
    ELSE IF Head(a) > Head(b) THEN "Greater"
    ELSE CmpBytes(Tail(a), Tail(b))

\* the comparator on the counts (a.1, b.1) instead of the identifiers
CompareEntriesByCount(a, b) ==
    IF a[2] < b[2] THEN "Less" ELSE IF a[2] > b[2] THEN "Greater" ELSE "Equal"

\* line 142: the comparator |a, b| a.0.cmp(&b.0)
CompareEntries(a, b) == CmpBytes(a[1], b[1])

\* insert x into a sorted vector: x goes in front of the first entry it is less than
RECURSIVE InsertEntry(_, _)
InsertEntry(v, x) ==
    IF v = <<>> THEN <<x>>
    ELSE IF CompareEntries(x, Head(v)) = "Less" THEN <<x>> \o v
    ELSE <<Head(v)>> \o InsertEntry(Tail(v), x)

\* the vector left as collected
NoSort(v) == v

\* line 142: sort_unstable_by, an insertion sort for vectors this short
RECURSIVE SortUnstableBy(_)
SortUnstableBy(v) ==
    IF v = <<>> THEN <<>>
    ELSE InsertEntry(SortUnstableBy(SubSeq(v, 1, Len(v) - 1)), v[Len(v)])

\* line 142
Sort ==
    /\ pc = "sort"
    /\ sorted_barcodes' = SortUnstableBy(sorted_barcodes)
    /\ pc' = "create"
    /\ UNCHANGED <<argv, container, artifact, arg_i, input_path_str, ref_fasta_path_str,
                   max_records, reader, take_n, barcode_counts, writer,
                   total_barcoded_reads, log, exit_code, rerun, prev>>


\* ------------------------------------------------------------------ output
FormatWidth == 7
Space == 32
Newline == 10
AsciiZero == 48

RECURSIVE DecimalDigits(_)
DecimalDigits(n) ==
    IF n < Len(DigitChars) THEN <<AsciiZero + n>>
    ELSE DecimalDigits(n \div Len(DigitChars)) \o <<AsciiZero + (n % Len(DigitChars))>>

\* line 148: writeln!(writer, "{:>7} {}", count, barcode): the count right-aligned
\* in at least 7 columns, a space, the identifier, a newline
FormatLine(count, barcode) ==
    LET digits == DecimalDigits(count)
        pad == IF Len(digits) < FormatWidth
               THEN [k \in 1..(FormatWidth - Len(digits)) |-> Space]
               ELSE <<>>
    IN  pad \o digits \o <<Space>> \o barcode \o <<Newline>>

RECURSIVE Flatten(_)
Flatten(lines) ==
    IF lines = <<>> THEN <<>> ELSE Head(lines) \o Flatten(Tail(lines))

\* lines 144-146: File::create(..)? truncates or creates the file
CreateOutput ==
    /\ pc = "create"
    /\ \E ok \in BOOLEAN :
          IF ok
          THEN /\ artifact' = File(<<>>)
               /\ writer' = [created |-> TRUE, buf |-> <<>>, i |-> 0]
               /\ total_barcoded_reads' = 0
               /\ pc' = "write"
               /\ UNCHANGED <<exit_code, log>>
          ELSE /\ Exit(1, "create_error")
               /\ UNCHANGED <<artifact, writer, total_barcoded_reads>>
    /\ UNCHANGED <<argv, container, arg_i, input_path_str, ref_fasta_path_str, max_records,
                   reader, take_n, barcode_counts, sorted_barcodes, rerun, prev>>

\* lines 147-150: one iteration of the write loop; the line stays in the BufWriter
WriteLine ==
    /\ pc = "write"
    /\ writer.i < Len(sorted_barcodes)
    /\ LET barcode == sorted_barcodes[writer.i + 1][1]
           count == sorted_barcodes[writer.i + 1][2]
       IN  /\ writer' = [writer EXCEPT !.buf = Append(@, FormatLine(count, barcode)),
                                       !.i = @ + 1]
           /\ total_barcoded_reads' = total_barcoded_reads + count
    /\ UNCHANGED <<argv, container, artifact, pc, arg_i, input_path_str, ref_fasta_path_str,
                   max_records, reader, take_n, barcode_counts, sorted_barcodes, log,
                   exit_code, rerun, prev>>

\* lines 151-163: writer.flush()?, the summary, Ok(()).  A failed flush leaves
\* some of the buffered lines in the file.
Finish ==
    /\ pc = "write"
    /\ writer.i = Len(sorted_barcodes)
    /\ \E written \in 0..Len(writer.buf) :
          IF written = Len(writer.buf)
          THEN /\ artifact' = File(Flatten(writer.buf))
               /\ pc' = "exit"
               /\ exit_code' = Some(0)
               /\ log' = log \cup {"finished"}
                             \cup (IF max_records.some THEN {"scanned_maximum"} ELSE {})
          ELSE /\ artifact' = File(Flatten(SubSeq(writer.buf, 1, written)))
               /\ Exit(1, "write_error")
    /\ UNCHANGED <<argv, container, arg_i, input_path_str, ref_fasta_path_str, max_records,
                   reader, take_n, barcode_counts, sorted_barcodes, writer,
                   total_barcoded_reads, rerun, prev>>

\* ---------------------------------------------------------- specifications
\* lines 13-14: the program is started once more, on the same container and with
\* the output file as the first invocation left it
Rerun ==
    /\ pc = "exit"
    /\ ~rerun
    /\ rerun' = TRUE
    /\ prev' = [ran |-> TRUE, max_records |-> max_records, exit_code |-> exit_code,
                pulled |-> reader.pos, sorted_barcodes |-> sorted_barcodes,
                artifact |-> artifact]
    /\ argv' \in RerunArgvSet
    /\ pc' = "start"
    /\ arg_i' = 0
    /\ input_path_str' = None
    /\ ref_fasta_path_str' = None
    /\ max_records' = None
    /\ reader' = [opened |-> FALSE, reference |-> FALSE, pos |-> 0]
    /\ take_n' = None
    /\ barcode_counts' = EmptyMap
    /\ sorted_barcodes' = <<>>
    /\ writer' = [created |-> FALSE, buf |-> <<>>, i |-> 0]
    /\ total_barcoded_reads' = 0
    /\ log' = {}
    /\ exit_code' = None
    /\ UNCHANGED <<container, artifact>>

Next ==
    \/ Start
    \/ ParseArg
    \/ RequireInput
    \/ OpenReader
    \/ SetReference
    \/ MakeIterator
    \/ ReadRecord
    \/ EndOfRecords
    \/ Collect
    \/ Sort
    \/ CreateOutput
    \/ WriteLine
    \/ Finish

Spec == Init /\ [][Next]_vars

NextRerun == Next \/ Rerun

SpecRerun == InitRerun /\ [][NextRerun]_vars


\* ================================================================= claims
\* the items pulled from the record source so far
Consumed == SubSeq(container, 1, reader.pos)

\* the CB lookup of this item returned a string value
StringTagged(item) == item.decoded /\ item.cb_type = "String"

\* how many items of s carry the string identifier id
Occurrences(id, s) ==
    Cardinality({ k \in DOMAIN s : StringTagged(s[k]) /\ s[k].cb_val = id })

NumStringTagged(s) == Cardinality({ k \in DOMAIN s : StringTagged(s[k]) })

IdsOf(s) == { s[k].cb_val : k \in { j \in DOMAIN s : StringTagged(s[j]) } }

RECURSIVE SumCounts(_)
SumCounts(v) == IF v = <<>> THEN 0 ELSE Head(v)[2] + SumCounts(Tail(v))

\* a is strictly below b in byte-wise lexicographic order
BytesBelow(a, b) ==
    \E k \in 0..Min(Len(a), Len(b)) :
        /\ SubSeq(a, 1, k) = SubSeq(b, 1, k)
        /\ \/ k = Len(a) /\ k < Len(b)
           \/ k < Len(a) /\ k < Len(b) /\ a[k + 1] < b[k + 1]

Succeeded == pc = "exit" /\ exit_code = Some(0)

\* the ordered tally exists: main is past the sort
Ordered ==
    \/ pc \in {"create", "write"}
    \/ pc = "exit" /\ (writer.created \/ "create_error" \in log)

\* the for loop over the records is over
LoopDone == pc \in {"collect", "sort"} \/ Ordered

\* C1: the total reported at the end, and the sum of the counts of the ordered
\* tally, equal the number of consumed records whose CB lookup gave a string;
\* decode errors, missing tags and non-string tags add nothing.
C1_TotalIsStringTagged ==
    /\ (pc = "sort" \/ Ordered) => SumCounts(sorted_barcodes) = NumStringTagged(Consumed)
    /\ Succeeded => total_barcoded_reads = NumStringTagged(Consumed)

C1_Witness ==
    /\ Succeeded
    /\ total_barcoded_reads = 1
    /\ \E i, j, k \in 1..reader.pos :
          /\ ~container[i].decoded
          /\ container[j].decoded /\ container[j].cb_type = "NotFound"
          /\ StringTagged(container[k])

\* C3: the ordered tally that is written out is strictly ascending by identifier
\* in byte-wise lexicographic order (so no identifier appears twice), whatever
\* order the hash map handed its entries over in.
C3_StrictlyAscending ==
    Ordered =>
        \A i \in 1..(Len(sorted_barcodes) - 1) :
            BytesBelow(sorted_barcodes[i][1], sorted_barcodes[i + 1][1])

C3_Witness ==
    /\ pc = "write"
    /\ writer.i = Len(sorted_barcodes)
    /\ Len(sorted_barcodes) = Cardinality(Ids)

\* C10: while the records are processed, the key set of the tally map is exactly
\* the set of identifiers extracted so far, and each key's count is the number of
\* times that exact identifier was extracted so far (so never 0).
C10_TallyMatchesPrefix ==
    pc \in {"loop", "collect"} =>
        /\ DOMAIN barcode_counts = IdsOf(Consumed)
        /\ \A id \in DOMAIN barcode_counts :
              /\ barcode_counts[id] = Occurrences(id, Consumed)
              /\ barcode_counts[id] >= 1

C10_Witness ==
    /\ pc = "loop"
    /\ <<65>> \in DOMAIN barcode_counts
    /\ <<97>> \in DOMAIN barcode_counts
    /\ barcode_counts[<<65>>] = 2
    /\ barcode_counts[<<97>>] = 1


\* C7: a decoded record whose CB tag is absent or not string-typed leaves the tally
\* map exactly as it was, reports nothing and does not stop the loop.
C7_NoIdentifierNoEffect ==
    [][ ( /\ pc = "loop"
          /\ reader'.pos = reader.pos + 1
          /\ container[reader.pos + 1].decoded
          /\ container[reader.pos + 1].cb_type # "String" )
        => ( /\ barcode_counts' = barcode_counts
             /\ pc' = "loop"
             /\ log' = log
             /\ exit_code' = None ) ]_vars

C7_Witness ==
    /\ pc = "loop"
    /\ reader.pos >= 2
    /\ container[reader.pos].decoded
    /\ container[reader.pos].cb_type = "I32"
    /\ DOMAIN barcode_counts # {}

\* C6: a decode error leaves the tally map unchanged and the loop running; the
\* loop still pulls every item the cap and the container allow, and the run ends
\* with exit code 0 unless creating or writing the output fails.
C6_AfterLoop ==
    /\ LoopDone =>
          reader.pos = IF max_records.some
                       THEN Min(max_records.val, Len(container))
                       ELSE Len(container)
    /\ (pc = "exit" /\ LoopDone /\ log \cap {"create_error", "write_error"} = {})
          => exit_code = Some(0)

C6_DecodeErrorRecoverable ==
    /\ []C6_AfterLoop
    /\ [][ ( /\ pc = "loop"
             /\ reader'.pos = reader.pos + 1
             /\ ~container[reader.pos + 1].decoded )
           => ( /\ barcode_counts' = barcode_counts
                /\ pc' = "loop"
                /\ exit_code' = None ) ]_vars

C6_Witness ==
    /\ Succeeded
    /\ \E i, j \in 1..reader.pos :
          /\ i < j
          /\ ~container[i].decoded
          /\ StringTagged(container[j])
    /\ total_barcoded_reads >= 1

\* the path names a CRAM container by its suffix
IsCramPath(path) ==
    \/ EndsWith(path, <<".", "c", "r", "a", "m">>)
    \/ EndsWith(path, <<".", "c", "r", "a", "i">>)

IsPositiveInteger(token) == ParseUsize(token).some /\ ParseUsize(token).val > 0

\* C5: a missing, non-numeric, negative or zero value of -n / --limit ends the
\* process with exit code 1, and no run starts with such a value as its cap.
C5_LimitMustBePositive ==
    /\ max_records.some => max_records.val > 0
    /\ \A i \in 1..arg_i :
          ( /\ argv[i] \in {T_n, T_limit}
            /\ (i = Len(argv) \/ ~IsPositiveInteger(argv[i + 1])) )
          => (pc = "exit" /\ exit_code = Some(1))


\* both invocations ran to the end and reported success
BothSucceeded == rerun /\ prev.exit_code = Some(0) /\ Succeeded

\* the cap is at least the number of items in the container
CapCoversAll(cap) == cap.some /\ cap.val >= Len(container)

\* C2: with a cap N the loop pulls at most N items from the record source, decode
\* errors included; with N at least the number of items in the container the run
\* pulls every item and ends with the same tally as a run without a cap.
C2_CapBoundsConsumption ==
    /\ max_records.some => reader.pos <= max_records.val
    /\ (LoopDone /\ CapCoversAll(max_records)) => reader.pos = Len(container)
    /\ (BothSucceeded /\ ~prev.max_records.some /\ CapCoversAll(max_records))
          => (sorted_barcodes = prev.sorted_barcodes /\ reader.pos = prev.pulled)
    /\ (BothSucceeded /\ CapCoversAll(prev.max_records) /\ ~max_records.some)
          => (sorted_barcodes = prev.sorted_barcodes /\ reader.pos = prev.pulled)

C2_Witness ==
    /\ BothSucceeded
    /\ ~prev.max_records.some
    /\ max_records = Some(Len(container))
    /\ Len(sorted_barcodes) >= 2
    /\ \E i \in 1..reader.pos : ~container[i].decoded

\* C4: two runs on the same records with the same cap leave byte-identical output
\* files, whatever order the hash map handed its entries over in.
C4_RerunSameBytes ==
    (BothSucceeded /\ prev.max_records = max_records) => artifact = prev.artifact

C4_Witness ==
    /\ BothSucceeded
    /\ prev.max_records = max_records
    /\ Len(sorted_barcodes) = Cardinality(Ids)
    /\ artifact.bytes # <<>>

\* C8: when opening the container or binding the reference fails, the process
\* ends with a non-zero exit code, no record is read, and 'reads_per_barcode' is
\* left as it was before the run (not created, not overwritten).
C8_OpenOrBindFailureIsFatal ==
    ("open_error" \in log \/ "reference_error" \in log) =>
        /\ pc = "exit"
        /\ exit_code.some /\ exit_code.val # 0
        /\ reader.pos = 0
        /\ ~writer.created
        /\ artifact = prev.artifact

C8_Witness ==
    /\ rerun
    /\ "reference_error" \in log
    /\ prev.exit_code = Some(0)
    /\ prev.artifact.bytes # <<>>
    /\ artifact = prev.artifact

====
